---- MODULE Spec2Model ----
(***************************************************************************)
(* Model of the neo-events backend: the events, event_permissions and      *)
(* event_versions tables (app/db/models.py), the CRUD layer                *)
(* (app/crud/crud_event.py) and the event endpoints                        *)
(* (app/api/v1/endpoints/events.py).  One action per endpoint; a request   *)
(* is handled from its first line to its response in one step.             *)
(*                                                                         *)
(* Python values are tagged records [k, v] so that Python's == between     *)
(* values of different types (a datetime and its ISO string) is the        *)
(* model's =.                                                              *)
(***************************************************************************)
EXTENDS Integers, Sequences, FiniteSets, TLC

VARIABLES events, permissions, versions, next_event_id, users, in_flight, last

vars == <<events, permissions, versions, next_event_id, users, in_flight, last>>

(***************************************************************************)
(* Bounds of the model.                                                    *)
(***************************************************************************)
NumUsers == 2
MaxTime == 3
MaxEvents == 2
MaxVersionRows == 3
MaxShare == 2
MaxRegistered == 1

\* the users registered at the start; the id after the last one belongs to
\* no user until a user is registered with it
Users == 1..NumUsers
UserIds == 1..(NumUsers + 1)
EventIds == 1..MaxEvents
Times == 0..MaxTime

(***************************************************************************)
(* Python values.                                                          *)
(***************************************************************************)
None == [k |-> "none", v |-> 0]
Unset == [k |-> "unset", v |-> 0]
Str(n) == [k |-> "str", v |-> n]
Dt(t) == [k |-> "dt", v |-> t]
Iso(t) == [k |-> "iso", v |-> t]
Bool(b) == [k |-> "bool", v |-> IF b THEN 1 ELSE 0]
Pat(n) == [k |-> "pat", v |-> n]

\* Python truthiness of a value (None, False and an unset Optional are falsy)
Truthy(x) == x.k \notin {"none", "unset"} /\ ~(x.k = "bool" /\ x.v = 0)

UserRole == {"owner", "editor", "viewer"}

essential_fields == {"title", "description", "start_time", "end_time",
                     "location", "is_recurring", "recurrence_pattern"}

\* datetime.isoformat() of every datetime in a dict; other values are kept.
\* Dt(t) is the instant t and Iso(t) the string written for it; the UTC
\* offset the string is written with is not modelled.
serialize_value(x) == IF x.k = "dt" THEN Iso(x.v) ELSE x

serialize_datetimes(d) == [f \in DOMAIN d |-> serialize_value(d[f])]

\* a timestamptz column parses an ISO string it is given into a timestamp
ToColumn(x) == IF x.k = "iso" THEN Dt(x.v) ELSE x

(***************************************************************************)
(* Schemas (app/schemas/event.py).                                         *)
(***************************************************************************)
\* EventBase.validate_dates and validate_recurrence_pattern; the field
\* validator of recurrence_pattern runs on a value that is given (None
\* included), not on the default of a field that is left out
EventBase_valid(e) ==
    /\ e.title.k = "str"
    /\ e.start_time.k = "dt" /\ e.end_time.k = "dt"
    /\ e.end_time.v > e.start_time.v
    /\ e.recurrence_pattern # Unset =>
          /\ ~(Truthy(e.is_recurring) /\ ~Truthy(e.recurrence_pattern))
          /\ ~(~Truthy(e.is_recurring) /\ Truthy(e.recurrence_pattern))

\* EventUpdate.validate_dates: only when both bounds are supplied
EventUpdate_valid(r) ==
    (Truthy(r.start_time) /\ Truthy(r.end_time)) => r.end_time.v > r.start_time.v

\* EventBase.model_dump: the two time fields as ISO strings, and the default
\* None of a recurrence_pattern that was left out
EventBase_model_dump(e) ==
    [f \in essential_fields |->
        IF f \in {"start_time", "end_time"} /\ Truthy(e[f]) THEN Iso(e[f].v)
        ELSE IF e[f] = Unset THEN None
        ELSE e[f]]

\* the status of a response that returns the event row through the Event
\* schema (response_model, from_attributes): a row the schema rejects is
\* answered 500
event_response_status(event) ==
    IF EventBase_valid([f \in essential_fields |-> event[f]]) THEN 200 ELSE 500

\* the detail of an error response of the endpoints of one event
error_detail(status) ==
    CASE status = 404 -> "Event not found"
      [] status = 403 -> "Not enough permissions"
      [] status = 500 -> "Internal Server Error"
      [] OTHER -> None

\* EventUpdate.model_dump without exclude_unset: every field, None if unset
EventUpdate_model_dump_all(r) ==
    [f \in essential_fields |-> IF r[f] = Unset THEN None ELSE r[f]]

\* EventUpdate.model_dump(exclude_unset=True): the supplied fields, as given
EventUpdate_model_dump(r) ==
    [f \in {g \in essential_fields : r[g] # Unset} |-> r[f]]

\* dict.update
dict_update(d, u) == [f \in DOMAIN d \cup DOMAIN u |-> IF f \in DOMAIN u THEN u[f] ELSE d[f]]

(***************************************************************************)
(* CRUD layer (app/crud/crud_event.py).                                    *)
(***************************************************************************)
EventFields(e) == [f \in essential_fields |-> e[f]]

event_versions(eid) == {v \in versions : v.event_id = eid}

event_permissions(eid) == {p \in permissions : p.event_id = eid}

\* check_conflicts without its second case (a stored event that starts
\* inside the range and ends at or after its end)
check_conflicts_no_end_case(event_id, start_time, end_time) ==
    {id \in DOMAIN events :
        /\ id # event_id
        /\ \/ (events[id].start_time.v <= start_time /\ events[id].end_time.v > start_time)
           \/ (events[id].start_time.v >= start_time /\ events[id].end_time.v <= end_time)}

\* check_conflicts without its first case (a stored event that starts at or
\* before the start of the range and ends after it)
check_conflicts_no_start_case(event_id, start_time, end_time) ==
    {id \in DOMAIN events :
        /\ id # event_id
        /\ \/ (events[id].start_time.v < end_time /\ events[id].end_time.v >= end_time)
           \/ (events[id].start_time.v >= start_time /\ events[id].end_time.v <= end_time)}

\* check_conflicts with its bounds closed: a stored event that ends when the
\* range starts, or starts when it ends, is returned as well
check_conflicts_closed(event_id, start_time, end_time) ==
    {id \in DOMAIN events :
        /\ id # event_id
        /\ \/ (events[id].start_time.v <= start_time /\ events[id].end_time.v >= start_time)
           \/ (events[id].start_time.v <= end_time /\ events[id].end_time.v >= end_time)
           \/ (events[id].start_time.v >= start_time /\ events[id].end_time.v <= end_time)}

\* the rows check_conflicts returns, as the ids of the events
check_conflicts(event_id, start_time, end_time) ==
    {id \in DOMAIN events :
        /\ id # event_id
        /\ \/ (events[id].start_time.v <= start_time /\ events[id].end_time.v > start_time)
           \/ (events[id].start_time.v < end_time /\ events[id].end_time.v >= end_time)
           \/ (events[id].start_time.v >= start_time /\ events[id].end_time.v <= end_time)}

\* role_hierarchy with editor ranked as high as owner
role_hierarchy_flat(r) == CASE r = "owner" -> 3 [] r = "editor" -> 3 [] r = "viewer" -> 1

role_hierarchy(r) == CASE r = "owner" -> 3 [] r = "editor" -> 2 [] r = "viewer" -> 1

\* check_permission without the owner_id case
check_permission_grants_only(event_id, user_id, required_role) ==
    IF event_id \notin DOMAIN events THEN FALSE
    ELSE LET rows == {p \in permissions : p.event_id = event_id /\ p.user_id = user_id}
         IN IF rows = {} THEN FALSE
            ELSE role_hierarchy((CHOOSE p \in rows : TRUE).role) >= role_hierarchy(required_role)

\* check_permission that accepts any grant, whatever its role
check_permission_any_grant(event_id, user_id, required_role) ==
    IF event_id \notin DOMAIN events THEN FALSE
    ELSE IF events[event_id].owner_id = user_id THEN TRUE
    ELSE \E p \in permissions : p.event_id = event_id /\ p.user_id = user_id

\* check_permission that accepts only a grant of exactly the required role
check_permission_exact_role(event_id, user_id, required_role) ==
    IF event_id \notin DOMAIN events THEN FALSE
    ELSE IF events[event_id].owner_id = user_id THEN TRUE
    ELSE \E p \in permissions :
            p.event_id = event_id /\ p.user_id = user_id /\ p.role = required_role

check_permission(event_id, user_id, required_role) ==
    IF event_id \notin DOMAIN events THEN FALSE
    ELSE IF events[event_id].owner_id = user_id THEN TRUE
    ELSE LET rows == {p \in permissions : p.event_id = event_id /\ p.user_id = user_id}
         IN IF rows = {} THEN FALSE
            ELSE role_hierarchy((CHOOSE p \in rows : TRUE).role) >= role_hierarchy(required_role)

\* the version row create_with_owner stores with the new event
initial_version(event_id, obj_in_data, owner_id) ==
    [event_id |-> event_id,
     version_number |-> 1,
     data |-> serialize_datetimes(obj_in_data),
     created_by_id |-> owner_id,
     comment |-> "Initial version",
     change_type |-> "create",
     changed_fields |-> [f \in {"all"} |-> essential_fields]]

\* the row with the highest version_number, as a set of at most one row
latest_version(event_id) ==
    {v \in event_versions(event_id) :
        \A w \in event_versions(event_id) : w.version_number <= v.version_number}

\* next_version_number that does not count up
next_version_number_stuck(event_id) ==
    IF latest_version(event_id) # {}
    THEN (CHOOSE v \in latest_version(event_id) : TRUE).version_number
    ELSE 1

\* the number create_version gives the next version of the event
next_version_number(event_id) ==
    IF latest_version(event_id) # {}
    THEN (CHOOSE v \in latest_version(event_id) : TRUE).version_number + 1
    ELSE 1

\* the changed_fields create_version computes, before they are serialized
changed_fields_of(previous_data, data) ==
    LET changed == {key \in essential_fields :
                       /\ key \in DOMAIN data
                       /\ (key \notin DOMAIN previous_data \/ previous_data[key] # data[key])}
    IN [key \in changed |->
           [old |-> IF key \in DOMAIN previous_data THEN previous_data[key] ELSE None,
            new |-> data[key]]]

\* the version row create_version stores for the dict data
create_version(event_id, data, user_id, comment) ==
    LET latest == latest_version(event_id)
        previous_data == IF latest # {} THEN (CHOOSE v \in latest : TRUE).data ELSE << >>
        changed_fields == changed_fields_of(previous_data, data)
        essential_data == [f \in essential_fields |->
                              IF f \in DOMAIN data THEN data[f] ELSE None]
    IN [event_id |-> event_id,
        version_number |-> next_version_number(event_id),
        data |-> serialize_datetimes(essential_data),
        created_by_id |-> user_id,
        comment |-> comment,
        change_type |-> "update",
        changed_fields |-> [key \in DOMAIN changed_fields |->
                               [old |-> serialize_value(changed_fields[key].old),
                                new |-> serialize_value(changed_fields[key].new)]]]

\* db_add_version that keeps only the newest row of an event
db_add_version_in_place(rows, version) ==
    {v \in rows : v.event_id # version.event_id} \cup {version}

\* db.add(version); db.commit(): the event_versions table with the new row
db_add_version(rows, version) == rows \cup {version}

\* add_permission that leaves an existing grant of the user as it is
add_permission_keep_existing(perms, event_id, user_id, role) ==
    IF \E p \in perms : p.event_id = event_id /\ p.user_id = user_id THEN perms
    ELSE perms \cup {[event_id |-> event_id, user_id |-> user_id, role |-> role]}

\* the permissions table after add_permission
add_permission(perms, event_id, user_id, role) ==
    {p \in perms : ~(p.event_id = event_id /\ p.user_id = user_id)}
        \cup {[event_id |-> event_id, user_id |-> user_id, role |-> role]}

\* the permissions table after remove_permission
remove_permission(perms, event_id, user_id) ==
    {p \in perms : ~(p.event_id = event_id /\ p.user_id = user_id)}

\* CRUDBase.update: every supplied field is set on the row
CRUDBase_update(db_obj, update_data) ==
    [f \in DOMAIN db_obj |->
        IF f \in DOMAIN update_data THEN ToColumn(update_data[f]) ELSE db_obj[f]]

\* CRUDBase.remove: the row with that id is deleted
CRUDBase_remove(rows, id) == [i \in DOMAIN rows \ {id} |-> rows[i]]

\* a delete that leaves the rows that refer to the event
cascade_delete_none(rows, event_id) == rows

\* the cascade of the delete of an event to the rows that refer to it
cascade_delete(rows, event_id) == {r \in rows : r.event_id # event_id}

(***************************************************************************)
(* Responses: the last request and what it was answered.  out is the       *)
(* detail of an error, or the body where a claim reads it.                 *)
(***************************************************************************)
Response(op, user, eid, status, req, out) ==
    [op |-> op, user |-> user, eid |-> eid, status |-> status, req |-> req, out |-> out]

\* the users table with the users 1..NumUsers registered, and nothing else
Init ==
    /\ events = << >>
    /\ permissions = {}
    /\ versions = {}
    /\ next_event_id = 1
    /\ users = [i \in Users |-> [email |-> Str(i), username |-> Str(i)]]
    /\ in_flight = {}
    /\ last = Response("none", 0, 0, 0, None, None)

(***************************************************************************)
(* Endpoints (app/api/v1/endpoints/events.py).                             *)
(***************************************************************************)
create_event(current_user, event_in) ==
    IF ~EventBase_valid(event_in)
    THEN /\ last' = Response("create_event", current_user, 0, 422, event_in, "validation error")
         /\ UNCHANGED <<events, permissions, versions, next_event_id, users, in_flight>>
    ELSE IF check_conflicts(0, event_in.start_time.v, event_in.end_time.v) # {}
    THEN /\ last' = Response("create_event", current_user, 0, 409, event_in,
                             "Event conflicts with existing events")
         /\ UNCHANGED <<events, permissions, versions, next_event_id, users, in_flight>>
    ELSE LET obj_in_data == EventBase_model_dump(event_in)
             id == next_event_id
             db_obj == [f \in essential_fields \cup {"owner_id"} |->
                           IF f = "owner_id" THEN current_user
                           ELSE ToColumn(obj_in_data[f])]
         IN /\ events' = [i \in DOMAIN events \cup {id} |->
                             IF i = id THEN db_obj ELSE events[i]]
            /\ versions' = db_add_version(versions,
                                          initial_version(id, obj_in_data, current_user))
            /\ next_event_id' = next_event_id + 1
            /\ last' = Response("create_event", current_user, id,
                                event_response_status(db_obj), event_in,
                                error_detail(event_response_status(db_obj)))
            /\ UNCHANGED <<permissions, users, in_flight>>

\* check_conflicts as create_batch runs it between its commits: on the
\* events table rows that holds the events the batch has created so far
check_conflicts_on(rows, event_id, start_time, end_time) ==
    {id \in DOMAIN rows :
        /\ id # event_id
        /\ \/ (rows[id].start_time.v <= start_time /\ rows[id].end_time.v > start_time)
           \/ (rows[id].start_time.v < end_time /\ rows[id].end_time.v >= end_time)
           \/ (rows[id].start_time.v >= start_time /\ rows[id].end_time.v <= end_time)}

\* the step of create_batch that checks every entry against the events
\* table as it was before the batch
create_batch_entry_stale(db, event, i, owner_id) ==
    IF check_conflicts(0, event.start_time.v, event.end_time.v) # {}
    THEN [db EXCEPT !.failed = Append(@, i)]
    ELSE [events |-> [k \in DOMAIN db.events \cup {db.next_event_id} |->
                         IF k = db.next_event_id
                         THEN [f \in essential_fields \cup {"owner_id"} |->
                                  IF f = "owner_id" THEN owner_id
                                  ELSE ToColumn(EventBase_model_dump(event)[f])]
                         ELSE db.events[k]],
          versions |-> db_add_version(db.versions,
                           initial_version(db.next_event_id, EventBase_model_dump(event),
                                           owner_id)),
          next_event_id |-> db.next_event_id + 1,
          created |-> Append(db.created, db.next_event_id),
          failed |-> db.failed]

\* one step of the loop of create_batch, for entry i of the batch: the entry
\* fails when it conflicts with a stored event, and is stored by
\* create_with_owner (which commits) otherwise
create_batch_entry(db, event, i, owner_id) ==
    IF check_conflicts_on(db.events, 0, event.start_time.v, event.end_time.v) # {}
    THEN [db EXCEPT !.failed = Append(@, i)]
    ELSE [events |-> [k \in DOMAIN db.events \cup {db.next_event_id} |->
                         IF k = db.next_event_id
                         THEN [f \in essential_fields \cup {"owner_id"} |->
                                  IF f = "owner_id" THEN owner_id
                                  ELSE ToColumn(EventBase_model_dump(event)[f])]
                         ELSE db.events[k]],
          versions |-> db_add_version(db.versions,
                           initial_version(db.next_event_id, EventBase_model_dump(event),
                                           owner_id)),
          next_event_id |-> db.next_event_id + 1,
          created |-> Append(db.created, db.next_event_id),
          failed |-> db.failed]

\* the loop of create_batch over the entries from position i
RECURSIVE create_batch_loop(_, _, _, _)
create_batch_loop(db, batch, i, owner_id) ==
    IF i > Len(batch) THEN db
    ELSE create_batch_loop(create_batch_entry(db, batch[i], i, owner_id), batch, i + 1,
                           owner_id)

\* what create_batch leaves and returns: created holds the ids of the events
\* it stored and failed the positions of the entries it did not store
create_batch_result(batch, owner_id) ==
    create_batch_loop([events |-> events, versions |-> versions,
                       next_event_id |-> next_event_id,
                       created |-> << >>, failed |-> << >>], batch, 1, owner_id)

\* crud_event.create_batch, called with a validated EventBatchCreate
create_batch(owner_id, batch) ==
    LET result == create_batch_result(batch, owner_id)
    IN /\ events' = result.events
       /\ versions' = result.versions
       /\ next_event_id' = result.next_event_id
       /\ last' = Response("create_batch", owner_id, 0, 0, batch,
                           [created |-> result.created, failed |-> result.failed])
       /\ UNCHANGED <<permissions, users, in_flight>>

\* update_event_data without the supplied fields: the event before the update
update_event_data_before(event, update_data) ==
    EventBase_model_dump(EventFields(event))

\* the dict update_event hands to create_version: the event as its schema
\* dumps it, overwritten by the supplied fields
update_event_data(event, update_data) ==
    dict_update(EventBase_model_dump(EventFields(event)), update_data)

update_event(current_user, event_id, event_in) ==
    IF ~EventUpdate_valid(event_in)
    THEN /\ last' = Response("update_event", current_user, event_id, 422, event_in,
                             "validation error")
         /\ UNCHANGED <<events, permissions, versions, next_event_id, users, in_flight>>
    ELSE IF event_id \notin DOMAIN events
    THEN /\ last' = Response("update_event", current_user, event_id, 404, event_in,
                             "Event not found")
         /\ UNCHANGED <<events, permissions, versions, next_event_id, users, in_flight>>
    ELSE IF ~check_permission(event_id, current_user, "editor")
    THEN /\ last' = Response("update_event", current_user, event_id, 403, event_in,
                             "Not enough permissions")
         /\ UNCHANGED <<events, permissions, versions, next_event_id, users, in_flight>>
    ELSE LET event == events[event_id]
             start_time == IF Truthy(event_in.start_time)
                           THEN event_in.start_time ELSE event.start_time
             end_time == IF Truthy(event_in.end_time)
                         THEN event_in.end_time ELSE event.end_time
         IN IF /\ (Truthy(event_in.start_time) \/ Truthy(event_in.end_time))
               /\ check_conflicts(event_id, start_time.v, end_time.v) # {}
            THEN /\ last' = Response("update_event", current_user, event_id, 409, event_in,
                                     "Event conflicts with existing events")
                 /\ UNCHANGED <<events, permissions, versions, next_event_id, users, in_flight>>
            ELSE IF ~EventBase_valid(EventFields(event))
            THEN \* EventSchema.model_validate(event) raises: an unhandled error
                 /\ last' = Response("update_event", current_user, event_id, 500, event_in,
                                     "Internal Server Error")
                 /\ UNCHANGED <<events, permissions, versions, next_event_id, users, in_flight>>
            ELSE LET update_data == EventUpdate_model_dump(event_in)
                     event_data == update_event_data(event, update_data)
                 IN /\ versions' = db_add_version(versions,
                           create_version(event_id, event_data, current_user, "Event updated"))
                    /\ events' = [events EXCEPT ![event_id] = CRUDBase_update(event, update_data)]
                    /\ last' = Response("update_event", current_user, event_id,
                                        event_response_status(CRUDBase_update(event, update_data)),
                                        event_in,
                                        error_detail(event_response_status(
                                            CRUDBase_update(event, update_data))))
                    /\ UNCHANGED <<permissions, next_event_id, users, in_flight>>

\* update_event gets as far as create_version: the request is valid, the
\* event exists, the user may edit it, no conflict is found and the event
\* passes its schema
update_event_proceeds(current_user, event_id, event_in) ==
    /\ EventUpdate_valid(event_in)
    /\ event_id \in DOMAIN events
    /\ check_permission(event_id, current_user, "editor")
    /\ ~(/\ (Truthy(event_in.start_time) \/ Truthy(event_in.end_time))
         /\ check_conflicts(event_id,
                (IF Truthy(event_in.start_time)
                 THEN event_in.start_time ELSE events[event_id].start_time).v,
                (IF Truthy(event_in.end_time)
                 THEN event_in.end_time ELSE events[event_id].end_time).v) # {})
    /\ EventBase_valid(EventFields(events[event_id]))

\* the first part of an update_event that runs beside other requests: from
\* its first line to the query of create_version for the latest version.  The
\* version row it is about to insert is built from what it has read.
update_event_begin(current_user, event_id, event_in) ==
    /\ update_event_proceeds(current_user, event_id, event_in)
    /\ in_flight' = in_flight \cup
          {[user |-> current_user, eid |-> event_id, req |-> event_in,
            version |-> create_version(event_id,
                            update_event_data(events[event_id],
                                              EventUpdate_model_dump(event_in)),
                            current_user, "Event updated")]}
    /\ UNCHANGED <<events, permissions, versions, next_event_id, users, last>>

\* the second part: db.add(version), db.commit() and the update of the row.
\* The insert fails on its foreign key if the event was deleted meanwhile.
update_event_commit(r) ==
    /\ r \in in_flight
    /\ in_flight' = in_flight \ {r}
    /\ IF r.eid \notin DOMAIN events
       THEN /\ last' = Response("update_event", r.user, r.eid, 500, r.req,
                                "Internal Server Error")
            /\ UNCHANGED <<events, permissions, versions, next_event_id, users>>
       ELSE LET update_data == EventUpdate_model_dump(r.req)
                updated == CRUDBase_update(events[r.eid], update_data)
            IN /\ versions' = db_add_version(versions, r.version)
               /\ events' = [events EXCEPT ![r.eid] = updated]
               /\ last' = Response("update_event", r.user, r.eid,
                                   event_response_status(updated), r.req,
                                   error_detail(event_response_status(updated)))
               /\ UNCHANGED <<permissions, next_event_id, users>>

delete_event(current_user, event_id) ==
    IF event_id \notin DOMAIN events
    THEN /\ last' = Response("delete_event", current_user, event_id, 404, None, "Event not found")
         /\ UNCHANGED <<events, permissions, versions, next_event_id, users, in_flight>>
    ELSE IF ~check_permission(event_id, current_user, "owner")
    THEN /\ last' = Response("delete_event", current_user, event_id, 403, None,
                             "Not enough permissions")
         /\ UNCHANGED <<events, permissions, versions, next_event_id, users, in_flight>>
    ELSE \* the ORM cascades the delete to the event's grants and versions
         /\ events' = CRUDBase_remove(events, event_id)
         /\ permissions' = cascade_delete(permissions, event_id)
         /\ versions' = cascade_delete(versions, event_id)
         /\ last' = Response("delete_event", current_user, event_id, 200, None, None)
         /\ UNCHANGED <<next_event_id, users, in_flight>>

\* the loop of share_event over share_request.users from position i: every
\* add_permission commits, and the first unknown user ends the request with 404
RECURSIVE share_loop(_, _, _, _)
share_loop(perms, event_id, request_users, i) ==
    IF i > Len(request_users) THEN [permissions |-> perms, status |-> 200]
    ELSE IF request_users[i].user_id \notin DOMAIN users
    THEN [permissions |-> perms, status |-> 404]
    ELSE share_loop(add_permission(perms, event_id, request_users[i].user_id,
                                   request_users[i].role),
                    event_id, request_users, i + 1)

share_event(current_user, event_id, share_request) ==
    IF event_id \notin DOMAIN events
    THEN /\ last' = Response("share_event", current_user, event_id, 404, share_request,
                             "Event not found")
         /\ UNCHANGED <<events, permissions, versions, next_event_id, users, in_flight>>
    ELSE IF ~check_permission(event_id, current_user, "owner")
    THEN /\ last' = Response("share_event", current_user, event_id, 403, share_request,
                             "Not enough permissions")
         /\ UNCHANGED <<events, permissions, versions, next_event_id, users, in_flight>>
    ELSE LET r == share_loop(permissions, event_id, share_request, 1)
         IN /\ permissions' = r.permissions
            /\ last' = Response("share_event", current_user, event_id, r.status, share_request,
                                IF r.status = 404 THEN "User not found" ELSE None)
            /\ UNCHANGED <<events, versions, next_event_id, users, in_flight>>

remove_event_permission(current_user, event_id, user_id) ==
    IF event_id \notin DOMAIN events
    THEN /\ last' = Response("remove_event_permission", current_user, event_id, 404, user_id,
                             "Event not found")
         /\ UNCHANGED <<events, permissions, versions, next_event_id, users, in_flight>>
    ELSE IF ~check_permission(event_id, current_user, "owner")
    THEN /\ last' = Response("remove_event_permission", current_user, event_id, 403, user_id,
                             "Not enough permissions")
         /\ UNCHANGED <<events, permissions, versions, next_event_id, users, in_flight>>
    ELSE IF \A p \in event_permissions(event_id) : p.user_id # user_id
    THEN /\ last' = Response("remove_event_permission", current_user, event_id, 404, user_id,
                             "Permission not found")
         /\ UNCHANGED <<events, permissions, versions, next_event_id, users, in_flight>>
    ELSE /\ permissions' = remove_permission(permissions, event_id, user_id)
         /\ last' = Response("remove_event_permission", current_user, event_id, 200, user_id, None)
         /\ UNCHANGED <<events, versions, next_event_id, users, in_flight>>

\* get_version without the filter on event_id
get_version_any_event(event_id, version_number) ==
    {v \in versions : v.version_number = version_number}

\* get_version: the rows of the event with that version_number
get_version(event_id, version_number) ==
    {v \in event_versions(event_id) : v.version_number = version_number}

\* diff_changes that reads new from the first version
diff_changes_new_from_first(d1, d2) ==
    LET keys == {key \in DOMAIN d1 \cup DOMAIN d2 :
                    \/ key \notin DOMAIN d1
                    \/ key \notin DOMAIN d2
                    \/ d1[key] # d2[key]}
    IN [key \in keys |->
           [old |-> IF key \in DOMAIN d1 THEN d1[key] ELSE None,
            new |-> IF key \in DOMAIN d1 THEN d1[key] ELSE None]]

\* the changes map get_version_diff computes from the data of two versions
diff_changes(d1, d2) ==
    LET keys == {key \in DOMAIN d1 \cup DOMAIN d2 :
                    \/ key \notin DOMAIN d1
                    \/ key \notin DOMAIN d2
                    \/ d1[key] # d2[key]}
    IN [key \in keys |->
           [old |-> IF key \in DOMAIN d1 THEN d1[key] ELSE None,
            new |-> IF key \in DOMAIN d2 THEN d2[key] ELSE None]]

get_version_diff(current_user, event_id, version1, version2) ==
    /\ UNCHANGED <<events, permissions, versions, next_event_id, users, in_flight>>
    /\ LET req == <<version1, version2>>
       IN IF event_id \notin DOMAIN events
          THEN last' = Response("get_version_diff", current_user, event_id, 404, req,
                                "Event not found")
          ELSE IF ~check_permission(event_id, current_user, "viewer")
          THEN last' = Response("get_version_diff", current_user, event_id, 403, req,
                                "Not enough permissions")
          ELSE IF get_version(event_id, version1) = {} \/ get_version(event_id, version2) = {}
          THEN last' = Response("get_version_diff", current_user, event_id, 404, req,
                                "Version not found")
          ELSE LET v1 == CHOOSE v \in get_version(event_id, version1) : TRUE
                   v2 == CHOOSE v \in get_version(event_id, version2) : TRUE
               IN last' = Response("get_version_diff", current_user, event_id, 200, req,
                                   diff_changes(v1.data, v2.data))

\* the status read_event answers the user for the event
read_event_status(current_user, event_id) ==
    IF event_id \notin DOMAIN events THEN 404
    ELSE IF ~check_permission(event_id, current_user, "viewer") THEN 403
    ELSE event_response_status(events[event_id])

read_event(current_user, event_id) ==
    /\ UNCHANGED <<events, permissions, versions, next_event_id, users, in_flight>>
    /\ LET status == read_event_status(current_user, event_id)
       IN last' = Response("read_event", current_user, event_id, status, None,
                           error_detail(status))

\* get_permissions: the grants of the event
get_permissions(event_id) == {p \in permissions : p.event_id = event_id}

read_event_permissions(current_user, event_id) ==
    /\ UNCHANGED <<events, permissions, versions, next_event_id, users, in_flight>>
    /\ IF event_id \notin DOMAIN events
       THEN last' = Response("read_event_permissions", current_user, event_id, 404, None,
                             "Event not found")
       ELSE IF ~check_permission(event_id, current_user, "viewer")
       THEN last' = Response("read_event_permissions", current_user, event_id, 403, None,
                             "Not enough permissions")
       ELSE last' = Response("read_event_permissions", current_user, event_id, 200, None,
                             get_permissions(event_id))

\* rows as a list in the order of their version_number
RECURSIVE order_by_version_number(_)
order_by_version_number(rows) ==
    IF rows = {} THEN << >>
    ELSE LET first == CHOOSE v \in rows : \A w \in rows : v.version_number <= w.version_number
         IN <<first>> \o order_by_version_number(rows \ {first})

\* get_versions: the versions of the event, lowest number first
get_versions(event_id) == order_by_version_number(event_versions(event_id))

read_event_history(current_user, event_id) ==
    /\ UNCHANGED <<events, permissions, versions, next_event_id, users, in_flight>>
    /\ IF event_id \notin DOMAIN events
       THEN last' = Response("read_event_history", current_user, event_id, 404, None,
                             "Event not found")
       ELSE IF ~check_permission(event_id, current_user, "viewer")
       THEN last' = Response("read_event_history", current_user, event_id, 403, None,
                             "Not enough permissions")
       ELSE last' = Response("read_event_history", current_user, event_id, 200, None,
                             get_versions(event_id))

read_event_version(current_user, event_id, version_id) ==
    /\ UNCHANGED <<events, permissions, versions, next_event_id, users, in_flight>>
    /\ IF event_id \notin DOMAIN events
       THEN last' = Response("read_event_version", current_user, event_id, 404, version_id,
                             "Event not found")
       ELSE IF ~check_permission(event_id, current_user, "viewer")
       THEN last' = Response("read_event_version", current_user, event_id, 403, version_id,
                             "Not enough permissions")
       ELSE IF get_version(event_id, version_id) = {}
       THEN last' = Response("read_event_version", current_user, event_id, 404, version_id,
                             "Version not found")
       ELSE last' = Response("read_event_version", current_user, event_id, 200, version_id,
                             CHOOSE v \in get_version(event_id, version_id) : TRUE)

\* the rows of events LEFT OUTER JOIN event_permissions that get_user_events
\* keeps: pairs of an event id and a grant of the event (None without grants)
get_user_events_rows(user_id) ==
    {r \in UNION {IF event_permissions(e) = {} THEN {<<e, None>>}
                  ELSE {<<e, p>> : p \in event_permissions(e)} : e \in DOMAIN events} :
        \/ events[r[1]].owner_id = user_id
        \/ (r[2] # None /\ r[2].user_id = user_id /\ r[2].role \in UserRole)}

\* a query without DISTINCT: every joined row is a row of the result
query_all_rows(rows) == rows

\* DISTINCT on the columns of the event: one row for each event
query_distinct(rows) == {r \in rows : r = CHOOSE q \in rows : q[1] = r[1]}

\* the orders a query without ORDER BY can return its rows in
Orderings(rows) ==
    {o \in [1..Cardinality(rows) -> rows] : \A i, j \in DOMAIN o : o[i] = o[j] => i = j}

\* OFFSET skip LIMIT limit of a list of rows
offset_limit(o, skip, limit) ==
    LET n == IF Len(o) - skip < 0 THEN 0
             ELSE IF Len(o) - skip < limit THEN Len(o) - skip ELSE limit
    IN [i \in 1..n |-> o[skip + i]]

\* the lists of event ids get_user_events can return
get_user_events(user_id, skip, limit) ==
    {[i \in DOMAIN offset_limit(o, skip, limit) |-> offset_limit(o, skip, limit)[i][1]] :
        o \in Orderings(query_distinct(get_user_events_rows(user_id)))}

read_events(current_user, skip, limit) ==
    /\ UNCHANGED <<events, permissions, versions, next_event_id, users, in_flight>>
    /\ \E out \in get_user_events(current_user, skip, limit) :
          IF \E i \in DOMAIN out : event_response_status(events[out[i]]) = 500
          THEN last' = Response("read_events", current_user, 0, 500, <<skip, limit>>,
                                "Internal Server Error")
          ELSE last' = Response("read_events", current_user, 0, 200, <<skip, limit>>, out)

(***************************************************************************)
(* Users and tokens (app/api/v1/endpoints/auth.py, users.py).              *)
(***************************************************************************)
\* a users table without its unique indexes
unique_indexes_none(rows) == TRUE

\* the unique indexes ix_users_email and ix_users_username
unique_indexes(rows) ==
    \A i, j \in DOMAIN rows :
        i # j => (rows[i].email # rows[j].email /\ rows[i].username # rows[j].username)

\* crud_user.get_by_email and get_by_username: the ids of the matching rows
get_by_email(email) == {i \in DOMAIN users : users[i].email = email}

get_by_username(username) == {i \in DOMAIN users : users[i].username = username}

\* crud_user.create: the table with a row for the new user under the next id
crud_user_create(user_in) ==
    [i \in DOMAIN users \cup {Cardinality(DOMAIN users) + 1} |->
        IF i \in DOMAIN users THEN users[i]
        ELSE [email |-> user_in.email, username |-> user_in.username]]

\* crud_user.update: the supplied fields are set on the row of the user
crud_user_update(user_id, user_in) ==
    [users EXCEPT ![user_id] =
        [f \in DOMAIN users[user_id] |->
            IF user_in[f] = Unset THEN users[user_id][f] ELSE user_in[f]]]

register(user_in) ==
    /\ UNCHANGED <<events, permissions, versions, next_event_id, in_flight>>
    /\ IF get_by_email(user_in.email) # {}
       THEN /\ last' = Response("register", 0, 0, 400, user_in, "Email already registered")
            /\ UNCHANGED users
       ELSE IF get_by_username(user_in.username) # {}
       THEN /\ last' = Response("register", 0, 0, 400, user_in, "Username already registered")
            /\ UNCHANGED users
       ELSE IF ~unique_indexes(crud_user_create(user_in))
       THEN /\ last' = Response("register", 0, 0, 500, user_in, "Internal Server Error")
            /\ UNCHANGED users
       ELSE /\ users' = crud_user_create(user_in)
            /\ last' = Response("register", Cardinality(DOMAIN users) + 1, 0, 200, user_in, None)

\* update_user_me: the commit fails on a unique index when the new email or
\* username is that of another user
update_user_me(current_user, user_in) ==
    /\ UNCHANGED <<events, permissions, versions, next_event_id, in_flight>>
    /\ IF ~unique_indexes(crud_user_update(current_user, user_in))
       THEN /\ last' = Response("update_user_me", current_user, 0, 500, user_in,
                                "Internal Server Error")
            /\ UNCHANGED users
       ELSE /\ users' = crud_user_update(current_user, user_in)
            /\ last' = Response("update_user_me", current_user, 0, 200, user_in, None)

\* deps.get_current_user: a token is accepted when it carries a genuine
\* signature and names a user of the table
token_accepted(token) == token.genuine /\ token.sub \in DOMAIN users

\* logout: nothing is written anywhere
logout(token) ==
    /\ UNCHANGED <<events, permissions, versions, next_event_id, users, in_flight>>
    /\ IF token_accepted(token)
       THEN last' = Response("logout", token.sub, 0, 200, token, "Successfully logged out")
       ELSE last' = Response("logout", 0, 0, 401, token, "Could not validate credentials")

read_users_me(token) ==
    /\ UNCHANGED <<events, permissions, versions, next_event_id, users, in_flight>>
    /\ IF token_accepted(token)
       THEN last' = Response("read_users_me", token.sub, 0, 200, token, users[token.sub])
       ELSE last' = Response("read_users_me", 0, 0, 401, token,
                             "Could not validate credentials")

(***************************************************************************)
(* Requests.                                                               *)
(***************************************************************************)
EventIn(title, description, start_time, end_time, location, is_recurring, recurrence_pattern) ==
    [title |-> title, description |-> description, start_time |-> start_time,
     end_time |-> end_time, location |-> location, is_recurring |-> is_recurring,
     recurrence_pattern |-> recurrence_pattern]

\* the table sizes the requests below stay within
CanCreate == next_event_id <= MaxEvents
CanUpdate == Cardinality(versions) < MaxVersionRows

ValidRanges == {p \in Times \X Times : p[1] < p[2]}

\* plain one-time events
PlainCreates ==
    {EventIn(Str(1), None, Dt(p[1]), Dt(p[2]), None, Bool(FALSE), None) : p \in ValidRanges}

NoUpdate == EventIn(Unset, Unset, Unset, Unset, Unset, Unset, Unset)

\* updates of the time range only: one bound, or both
TimeUpdates ==
    {[NoUpdate EXCEPT !.start_time = Dt(x)] : x \in Times}
    \cup {[NoUpdate EXCEPT !.end_time = Dt(x)] : x \in Times}
    \cup {[NoUpdate EXCEPT !.start_time = Dt(p[1]), !.end_time = Dt(p[2])] : p \in ValidRanges}

\* one-time and recurring events, and a recurring one that leaves the
\* pattern out
RichCreates ==
    {EventIn(Str(1), None, Dt(p[1]), Dt(p[2]), None, rp[1], rp[2]) :
        p \in {<<0, 2>>, <<2, 3>>},
        rp \in {<<Bool(FALSE), None>>, <<Bool(TRUE), Pat(1)>>}}
    \cup {EventIn(Str(1), None, Dt(0), Dt(2), None, Bool(TRUE), Unset)}

\* the values an update can supply for a field
FieldValues(f) ==
    CASE f = "title" -> {Str(1), Str(2)}
      [] f = "description" -> {None, Str(1)}
      [] f = "start_time" -> {Dt(x) : x \in Times}
      [] f = "end_time" -> {Dt(x) : x \in Times}
      [] f = "location" -> {Str(1)}
      [] f = "is_recurring" -> {Bool(FALSE), Bool(TRUE)}
      [] f = "recurrence_pattern" -> {None, Pat(1)}

\* updates that supply nothing, one field, both bounds, or both recurrence fields
RichUpdates ==
    {NoUpdate}
    \cup UNION {{[NoUpdate EXCEPT ![f] = x] : x \in FieldValues(f)} : f \in essential_fields}
    \cup {[NoUpdate EXCEPT !.start_time = Dt(p[1]), !.end_time = Dt(p[2])] : p \in ValidRanges}
    \cup {[NoUpdate EXCEPT !.is_recurring = Bool(TRUE), !.recurrence_pattern = Pat(2)],
          [NoUpdate EXCEPT !.is_recurring = Bool(FALSE), !.recurrence_pattern = None]}

\* share requests: non-empty lists of grants to distinct user ids
ShareRequests ==
    {<<[user_id |-> u, role |-> r]>> : u \in UserIds \ {1}, r \in UserRole}
    \cup (IF MaxShare < 2 THEN {} ELSE
          {<<[user_id |-> p[1], role |-> "viewer"], [user_id |-> p[2], role |-> "editor"]>> :
              p \in {q \in (UserIds \ {1}) \X (UserIds \ {1}) : q[1] # q[2]}})

\* two events that do not overlap, and a change of title
SharingCreates ==
    {EventIn(Str(1), None, Dt(p[1]), Dt(p[2]), None, Bool(FALSE), None) :
        p \in {<<0, 1>>, <<1, 2>>}}

TitleUpdate == [NoUpdate EXCEPT !.title = Str(2)]

\* Sharing: the users create events, and edit, share and delete them
Next ==
    \/ \E u \in Users, r \in SharingCreates : CanCreate /\ create_event(u, r)
    \/ \E u \in Users, e \in EventIds : CanUpdate /\ update_event(u, e, TitleUpdate)
    \/ \E u \in Users, e \in EventIds : delete_event(u, e)
    \/ \E u \in Users, e \in EventIds, r \in ShareRequests : share_event(u, e, r)
    \/ \E u \in Users, e \in EventIds, t \in UserIds : remove_event_permission(u, e, t)

Spec == Init /\ [][Next]_vars

\* Scheduling: the users create, move and delete plain events
NextConflicts ==
    \/ \E u \in Users, r \in PlainCreates : CanCreate /\ create_event(u, r)
    \/ \E u \in Users, e \in EventIds, r \in TimeUpdates : CanUpdate /\ update_event(u, e, r)
    \/ \E u \in Users, e \in EventIds : delete_event(u, e)

SpecConflicts == Init /\ [][NextConflicts]_vars

\* Editing: user 1 creates events, edits every field and compares versions
NextVersions ==
    \/ \E r \in RichCreates : CanCreate /\ create_event(1, r)
    \/ \E e \in EventIds, r \in RichUpdates : CanUpdate /\ update_event(1, e, r)
    \/ \E e \in EventIds : delete_event(1, e)
    \/ \E e \in EventIds, v1 \in 1..MaxVersionRows, v2 \in 1..MaxVersionRows :
          get_version_diff(1, e, v1, v2)

SpecVersions == Init /\ [][NextVersions]_vars

\* one grant: any role to a user other than user 1, or viewer to user 1
GrantRequests ==
    {<<[user_id |-> u, role |-> r]>> : u \in Users \ {1}, r \in UserRole}
    \cup {<<[user_id |-> 1, role |-> "viewer"]>>}

\* the pages read_events is asked for
Pages == {<<0, 100>>, <<0, 1>>, <<1, 1>>}

\* Reading: user 1 creates events; the users share, edit, delete and read them
NextReads ==
    \/ \E r \in SharingCreates : CanCreate /\ create_event(1, r)
    \/ \E u \in Users, e \in EventIds : CanUpdate /\ update_event(u, e, TitleUpdate)
    \/ \E u \in Users, e \in EventIds : delete_event(u, e)
    \/ \E u \in Users, e \in EventIds, r \in GrantRequests : share_event(u, e, r)
    \/ \E u \in Users, e \in EventIds, t \in Users : remove_event_permission(u, e, t)
    \/ \E u \in Users, pg \in Pages : read_events(u, pg[1], pg[2])
    \/ \E u \in Users, e \in EventIds : read_event(u, e)
    \/ \E u \in Users, e \in EventIds : read_event_permissions(u, e)
    \/ \E u \in Users, e \in EventIds : read_event_history(u, e)
    \/ \E u \in Users, e \in EventIds, v \in 1..2 : read_event_version(u, e, v)
    \/ \E u \in Users, e \in EventIds, v \in 1..2 : get_version_diff(u, e, 1, v)

SpecReads == Init /\ [][NextReads]_vars

\* updates of one field each
FieldUpdates ==
    {[NoUpdate EXCEPT !.title = Str(2)],
     [NoUpdate EXCEPT !.description = Str(1)],
     [NoUpdate EXCEPT !.location = Str(1)]}

\* the requests that may run beside each other, and the rows they may add
MaxInFlight == 2
CanBegin ==
    /\ Cardinality(in_flight) < MaxInFlight
    /\ Cardinality(versions) + Cardinality(in_flight) < MaxVersionRows

\* Interleaving: user 1 creates and deletes events one request at a time,
\* while update_event requests run beside each other
NextInterleaved ==
    \/ \E r \in SharingCreates : CanCreate /\ create_event(1, r)
    \/ \E e \in EventIds, r \in FieldUpdates : CanBegin /\ update_event_begin(1, e, r)
    \/ \E r \in in_flight : update_event_commit(r)
    \/ \E e \in EventIds : delete_event(1, e)

SpecInterleaved == Init /\ [][NextInterleaved]_vars

\* emails and usernames; user i starts with email i and username i
Names == {Str(n) : n \in 1..(NumUsers + MaxRegistered + 1)}

UserCreates == {[email |-> e, username |-> n] : e \in Names, n \in Names}

\* updates of the email, of the username, of both, or of neither
UserUpdates ==
    {[email |-> e, username |-> n] : e \in Names \cup {Unset}, n \in Names \cup {Unset}}

\* bearer tokens: the user they name, and whether their signature is genuine
Tokens == {[sub |-> u, genuine |-> g] : u \in UserIds, g \in BOOLEAN}

\* at most MaxRegistered users are added; a request that register rejects
\* is always possible
CanRegister(user_in) ==
    \/ Cardinality(DOMAIN users) < NumUsers + MaxRegistered
    \/ get_by_email(user_in.email) # {}
    \/ get_by_username(user_in.username) # {}

\* Accounts: users register, change their email and username, and log out
NextUsers ==
    \/ \E r \in UserCreates : CanRegister(r) /\ register(r)
    \/ \E u \in DOMAIN users, r \in UserUpdates : update_user_me(u, r)
    \/ \E t \in Tokens : logout(t)
    \/ \E t \in Tokens : read_users_me(t)

SpecUsers == Init /\ [][NextUsers]_vars

\* the entries of a batch: plain events over ranges that overlap ((0,2) and
\* (1,2)), touch ((0,1) and (1,2)) and lie inside another ((0,1) in (0,2))
BatchEntries ==
    {EventIn(Str(1), None, Dt(p[1]), Dt(p[2]), None, Bool(FALSE), None) :
        p \in {<<0, 2>>, <<1, 2>>, <<0, 1>>}}

\* batches of one or two entries
BatchCreates == UNION {[1..n -> BatchEntries] : n \in 1..2}

\* a batch is run when the events it stores fit the table
CanCreateBatch(owner_id, batch) ==
    create_batch_result(batch, owner_id).next_event_id <= MaxEvents + 1

\* Batches: user 1 creates events one by one and in batches, moves and
\* deletes them
NextBatches ==
    \/ \E r \in PlainCreates : CanCreate /\ create_event(1, r)
    \/ \E b \in BatchCreates : CanCreateBatch(1, b) /\ create_batch(1, b)
    \/ \E e \in EventIds, r \in TimeUpdates : CanUpdate /\ update_event(1, e, r)
    \/ \E e \in EventIds : delete_event(1, e)

SpecBatches == Init /\ [][NextBatches]_vars

\* the row create_with_owner stores for the request event_in of user owner_id
create_with_owner_row(event_in, owner_id) ==
    [f \in essential_fields \cup {"owner_id"} |->
        IF f = "owner_id" THEN owner_id ELSE ToColumn(EventBase_model_dump(event_in)[f])]

\* the requests that wrote an events table: plain one-time events of user 1,
\* overlapping or not (an events table holds overlapping rows when the
\* requests that wrote them ran beside each other)
TableRequests == UNION {[1..n -> PlainCreates] : n \in 0..MaxEvents}

\* an events table of any content with first versions, and nothing else
InitTables ==
    /\ \E reqs \in TableRequests :
          /\ events = [i \in DOMAIN reqs |-> create_with_owner_row(reqs[i], 1)]
          /\ versions = {initial_version(i, EventBase_model_dump(reqs[i]), 1) :
                            i \in DOMAIN reqs}
          /\ next_event_id = Len(reqs) + 1
    /\ permissions = {}
    /\ users = [i \in Users |-> [email |-> Str(i), username |-> Str(i)]]
    /\ in_flight = {}
    /\ last = Response("none", 0, 0, 0, None, None)

\* a call of crud_event.check_conflicts; out holds the ids of the rows returned
check_conflicts_call(event_id, start_time, end_time) ==
    /\ last' = Response("check_conflicts", 0, event_id, 200,
                        [start_time |-> Dt(start_time), end_time |-> Dt(end_time)],
                        check_conflicts(event_id, start_time, end_time))
    /\ UNCHANGED <<events, permissions, versions, next_event_id, users, in_flight>>

\* The conflict query on any events table, for any id and any valid range
NextQueries ==
    \E e \in 0..MaxEvents, p \in ValidRanges : check_conflicts_call(e, p[1], p[2])

SpecQueries == InitTables /\ [][NextQueries]_vars

(***************************************************************************)
(* Claims.                                                                 *)
(***************************************************************************)
\* half-open interval overlap of a stored event with the range [s, t)
Overlaps(e, s, t) == e.start_time.v < t /\ e.end_time.v > s

\* the time range an update_event request asks for, on the events evs
UpdateStart(resp, evs) ==
    IF Truthy(resp.req.start_time) THEN resp.req.start_time.v ELSE evs[resp.eid].start_time.v

UpdateEnd(resp, evs) ==
    IF Truthy(resp.req.end_time) THEN resp.req.end_time.v ELSE evs[resp.eid].end_time.v

\* r is a role that ranks at least as high as required, owner > editor > viewer
RoleAtLeast(r, required) ==
    \/ required = "viewer"
    \/ required = "editor" /\ r \in {"editor", "owner"}
    \/ required = "owner" /\ r = "owner"

\* user u holds a grant on event e that ranks at least required
HoldsGrant(e, u, required) ==
    \E p \in permissions : p.event_id = e /\ p.user_id = u /\ RoleAtLeast(p.role, required)

\* the rows of event e in a version table, and their numbers
VersionsOf(rows, e) == {v \in rows : v.event_id = e}

VersionNumbersOf(rows, e) == {v.version_number : v \in VersionsOf(rows, e)}

VersionNumbers(e) == VersionNumbersOf(versions, e)

\* C1: a create_event whose range overlaps a stored event of the same user is
\* answered 409 with the conflict detail, and stores no event and no version.
C1_CreateConflictRejected ==
    [][(/\ last'.op = "create_event"
        /\ EventBase_valid(last'.req)
        /\ \E id \in DOMAIN events :
              /\ events[id].owner_id = last'.user
              /\ Overlaps(events[id], last'.req.start_time.v, last'.req.end_time.v))
       => (/\ last'.status = 409
           /\ last'.out = "Event conflicts with existing events"
           /\ events' = events
           /\ versions' = versions)]_vars

\* a create_event was answered 409 while an event of the same user overlaps it
C1_Witness ==
    /\ last.op = "create_event"
    /\ last.status = 409
    /\ \E id \in DOMAIN events :
          /\ events[id].owner_id = last.user
          /\ Overlaps(events[id], last.req.start_time.v, last.req.end_time.v)

\* C2: a create_event or update_event is answered 409 only when an event of
\* the requesting user overlaps the requested range: events of other users
\* never cause a conflict.
C2_OnlyOwnEventsConflict ==
    [][/\ (last'.op = "create_event" /\ last'.status = 409)
          => \E id \in DOMAIN events :
                /\ events[id].owner_id = last'.user
                /\ Overlaps(events[id], last'.req.start_time.v, last'.req.end_time.v)
       /\ (last'.op = "update_event" /\ last'.status = 409)
          => \E id \in DOMAIN events \ {last'.eid} :
                /\ events[id].owner_id = last'.user
                /\ Overlaps(events[id], UpdateStart(last', events), UpdateEnd(last', events))]_vars

\* C3: the version numbers of every event are 1..n without gap or duplicate;
\* create_event records exactly version 1, every successful update_event adds
\* exactly one version, and no request other than an update_event of the
\* event changes the event's versions.
C3_LinearVersionNumbers ==
    [][/\ \A e \in EventIds :
             e \in DOMAIN events' =>
                VersionNumbersOf(versions', e) = 1..Cardinality(VersionsOf(versions', e))
       /\ (last'.op = "create_event" /\ last'.status = 200)
             => VersionNumbersOf(versions', last'.eid) = {1}
       /\ \A e \in EventIds :
             (e \in DOMAIN events /\ e \in DOMAIN events') =>
                /\ (last'.op = "update_event" /\ last'.status = 200 /\ last'.eid = e)
                      => Cardinality(VersionsOf(versions', e)) =
                            Cardinality(VersionsOf(versions, e)) + 1
                /\ ~(last'.op = "update_event" /\ last'.eid = e)
                      => VersionsOf(versions', e) = VersionsOf(versions, e)]_vars

\* an update that supplies nothing succeeded and recorded the third version
C3_Witness ==
    /\ last.op = "update_event"
    /\ last.status = 200
    /\ last.req = NoUpdate
    /\ VersionNumbers(last.eid) = {1, 2, 3}

\* C4: a recorded version is never changed or removed by update_event,
\* share_event or remove_event_permission: every version row stays as it is
\* unless a delete_event removes its event.
C4_VersionsAppendOnly ==
    [][\A v \in versions :
          \/ v \in versions'
          \/ (/\ last'.op = "delete_event"
              /\ last'.status = 200
              /\ last'.eid = v.event_id)]_vars

\* a grant was removed from an event that has a second version
C4_Witness ==
    /\ last.op = "remove_event_permission"
    /\ last.status = 200
    /\ 2 \in VersionNumbers(last.eid)

\* C5: the data of the highest version of every event is the event's current
\* essential fields (as JSON): update_event records the state after the update.
C5_LatestVersionIsCurrent ==
    \A e \in DOMAIN events :
        /\ latest_version(e) # {}
        /\ \A v \in latest_version(e) : v.data = serialize_datetimes(EventFields(events[e]))

\* an update changed the title and the newest version holds the new title
C5_Witness ==
    /\ last.op = "update_event"
    /\ last.status = 200
    /\ last.req.title = Str(2)
    /\ \E v \in get_version(last.eid, 1) : v.data.title = Str(1)
    /\ \E v \in latest_version(last.eid) : v.version_number >= 2 /\ v.data.title = Str(2)

\* C6: for every version n >= 2, changed_fields lists exactly the essential
\* fields whose value differs between the data of versions n-1 and n, each
\* with old = the value in n-1 and new = the value in n.
C6_ChangedFieldsExact ==
    \A v \in versions :
        v.version_number >= 2 =>
            \A p \in get_version(v.event_id, v.version_number - 1) :
                /\ DOMAIN v.changed_fields =
                       {f \in essential_fields : v.data[f] # p.data[f]}
                /\ \A f \in DOMAIN v.changed_fields :
                       v.changed_fields[f] = [old |-> p.data[f], new |-> v.data[f]]

\* C7: get_version_diff of two existing versions returns exactly the fields
\* whose values differ, old from the first and new from the second; a version
\* against itself gives no change, the swapped request gives the same fields
\* with old and new exchanged, and a missing version gives 404.
C7_DiffExact ==
    (/\ last.op = "get_version_diff"
     /\ last.eid \in DOMAIN events
     /\ check_permission(last.eid, last.user, "viewer"))
    => LET a == get_version(last.eid, last.req[1])
           b == get_version(last.eid, last.req[2])
       IN IF a = {} \/ b = {}
          THEN last.status = 404 /\ last.out = "Version not found"
          ELSE \A v1 \in a, v2 \in b :
                  /\ last.status = 200
                  /\ DOMAIN last.out = {f \in essential_fields : v1.data[f] # v2.data[f]}
                  /\ \A f \in DOMAIN last.out :
                        last.out[f] = [old |-> v1.data[f], new |-> v2.data[f]]
                  /\ (last.req[1] = last.req[2] => DOMAIN last.out = {})
                  /\ diff_changes(v2.data, v1.data) =
                        [f \in DOMAIN last.out |->
                            [old |-> last.out[f].new, new |-> last.out[f].old]]

\* two different versions were compared and differ in some field
C7_Witness ==
    /\ last.op = "get_version_diff"
    /\ last.status = 200
    /\ last.req[1] # last.req[2]
    /\ DOMAIN last.out # {}

\* C8: check_permission is true exactly when the event exists and the user is
\* its owner_id or holds a grant on it ranking at least the required role;
\* so a permission for a role implies the permission for every lower role.
C8_CheckPermissionExact ==
    \A e \in EventIds, u \in UserIds :
        /\ \A r \in UserRole :
              check_permission(e, u, r) <=>
                 (e \in DOMAIN events /\ (events[e].owner_id = u \/ HoldsGrant(e, u, r)))
        /\ check_permission(e, u, "owner") => check_permission(e, u, "editor")
        /\ check_permission(e, u, "editor") => check_permission(e, u, "viewer")

\* a user who is not the owner holds an editor grant: editor and viewer
\* permission, no owner permission, and no permission on another event
C8_Witness ==
    \E e \in DOMAIN events, u \in Users :
        /\ events[e].owner_id # u
        /\ \E p \in permissions : p.event_id = e /\ p.user_id = u /\ p.role = "editor"
        /\ check_permission(e, u, "editor")
        /\ ~check_permission(e, u, "owner")
        /\ \E f \in DOMAIN events : f # e /\ ~check_permission(f, u, "viewer")

\* C9, as claimed: delete_event succeeds only for the user stored as the
\* event's owner_id; every other user gets 403 and everything remains.
C9_OnlyOwnerIdDeletes ==
    [][(last'.op = "delete_event" /\ last'.eid \in DOMAIN events)
       => IF events[last'.eid].owner_id = last'.user
          THEN last'.status = 200
          ELSE /\ last'.status = 403
               /\ UNCHANGED <<events, permissions, versions>>]_vars

\* C9, amended: delete_event succeeds only for the event's owner_id and for
\* holders of an owner grant on it; every other user gets 403 'Not enough
\* permissions' and the event, its grants and its versions remain.
C9_OnlyOwnersDelete ==
    [][(last'.op = "delete_event" /\ last'.eid \in DOMAIN events)
       => IF \/ events[last'.eid].owner_id = last'.user
             \/ \E p \in permissions :
                   p.event_id = last'.eid /\ p.user_id = last'.user /\ p.role = "owner"
          THEN last'.status = 200
          ELSE /\ last'.status = 403
               /\ last'.out = "Not enough permissions"
               /\ UNCHANGED <<events, permissions, versions>>]_vars

\* a holder of an editor grant was refused the deletion; the event, the
\* grant and the versions are there
C9_Witness ==
    /\ last.op = "delete_event"
    /\ last.status = 403
    /\ last.eid \in DOMAIN events
    /\ \E p \in permissions :
          p.event_id = last.eid /\ p.user_id = last.user /\ p.role = "editor"
    /\ event_versions(last.eid) # {}

\* C10: update_event on an existing event by a user who is neither its owner
\* nor the holder of an editor or owner grant is answered 403 and changes
\* neither the events nor the versions; the owner and the holders of an
\* editor or owner grant are not answered 403.
C10_UpdateNeedsEditor ==
    [][(/\ last'.op = "update_event"
        /\ EventUpdate_valid(last'.req)
        /\ last'.eid \in DOMAIN events)
       => IF \/ events[last'.eid].owner_id = last'.user
             \/ \E p \in permissions :
                   /\ p.event_id = last'.eid /\ p.user_id = last'.user
                   /\ p.role \in {"editor", "owner"}
          THEN last'.status # 403
          ELSE /\ last'.status = 403
               /\ events' = events
               /\ versions' = versions]_vars

\* a holder of a viewer grant was refused the update
C10_Witness ==
    /\ last.op = "update_event"
    /\ last.status = 403
    /\ \E p \in permissions :
          p.event_id = last.eid /\ p.user_id = last.user /\ p.role = "viewer"

\* the operations that read one event
ReadOps == {"read_event", "read_event_permissions", "read_event_history",
            "read_event_version", "get_version_diff"}

\* user u holds a grant of some role on event e
HasGrant(e, u) == \E p \in permissions : p.event_id = e /\ p.user_id = u

\* C11: a read of an existing event (read_event, read_event_permissions,
\* read_event_history, read_event_version, get_version_diff) is answered 403
\* 'Not enough permissions' exactly when the user is neither the event's
\* owner nor the holder of a grant on it; holders of a viewer, editor or
\* owner grant are permitted.
C11_ReadsNeedAccess ==
    (last.op \in ReadOps /\ last.eid \in DOMAIN events)
    => IF events[last.eid].owner_id = last.user \/ HasGrant(last.eid, last.user)
       THEN last.status # 403
       ELSE last.status = 403 /\ last.out = "Not enough permissions"

\* the holder of a viewer grant, not the owner, read the history of the event
C11_Witness ==
    /\ last.op = "read_event_history"
    /\ last.status = 200
    /\ last.eid \in DOMAIN events
    /\ events[last.eid].owner_id # last.user
    /\ \E p \in permissions :
          p.event_id = last.eid /\ p.user_id = last.user /\ p.role = "viewer"

\* user u has owner-level access to event e: its owner_id or an owner grant
OwnerLevel(e, u) ==
    \/ events[e].owner_id = u
    \/ \E p \in permissions : p.event_id = e /\ p.user_id = u /\ p.role = "owner"

\* C12: share_event and remove_event_permission on an existing event by a
\* user without owner-level access (only a viewer or editor grant, or no
\* grant) are answered 403 and leave every grant unchanged.
C12_OnlyOwnersChangeAccess ==
    [][(/\ last'.op \in {"share_event", "remove_event_permission"}
        /\ last'.eid \in DOMAIN events
        /\ ~OwnerLevel(last'.eid, last'.user))
       => (/\ last'.status = 403
           /\ last'.out = "Not enough permissions"
           /\ permissions' = permissions)]_vars

\* the holder of an editor grant asked for the owner role for themself and
\* was refused
C12_Witness ==
    /\ last.op = "share_event"
    /\ last.status = 403
    /\ \E i \in DOMAIN last.req : last.req[i] = [user_id |-> last.user, role |-> "owner"]
    /\ \E p \in permissions :
          p.event_id = last.eid /\ p.user_id = last.user /\ p.role = "editor"

\* C13: a share_event request that lists a user_id that does not exist is
\* answered 404 and no grant has been created or changed, also not for the
\* users listed before it in the request.
C13_ShareAllOrNothing ==
    [][(/\ last'.op = "share_event"
        /\ last'.eid \in DOMAIN events
        /\ OwnerLevel(last'.eid, last'.user)
        /\ \E i \in DOMAIN last'.req : last'.req[i].user_id \notin Users)
       => (/\ last'.status = 404
           /\ permissions' = permissions)]_vars

\* C14: an update_event by a permitted user that supplies start_time and/or
\* end_time is answered 409 when the resulting range (a missing bound taken
\* from the stored event) overlaps another stored event; an update answered
\* 409 records no version and leaves the events unchanged; an update that
\* supplies neither bound is never answered 409.
C14_UpdateConflictRejected ==
    [][(/\ last'.op = "update_event"
        /\ EventUpdate_valid(last'.req)
        /\ last'.eid \in DOMAIN events
        /\ check_permission(last'.eid, last'.user, "editor"))
       => /\ (/\ Truthy(last'.req.start_time) \/ Truthy(last'.req.end_time)
              /\ \E id \in DOMAIN events \ {last'.eid} :
                    Overlaps(events[id], UpdateStart(last', events), UpdateEnd(last', events)))
             => (last'.status = 409 /\ last'.out = "Event conflicts with existing events")
          /\ last'.status = 409 => (events' = events /\ versions' = versions)
          /\ (~Truthy(last'.req.start_time) /\ ~Truthy(last'.req.end_time))
             => last'.status # 409]_vars

\* an update that supplies only start_time was answered 409 because the
\* range it gives with the stored end_time overlaps another event
C14_Witness ==
    /\ last.op = "update_event"
    /\ last.status = 409
    /\ Truthy(last.req.start_time) /\ ~Truthy(last.req.end_time)
    /\ \E id \in DOMAIN events \ {last.eid} :
          Overlaps(events[id], last.req.start_time.v, events[last.eid].end_time.v)

\* C15: every stored event has end_time strictly after start_time.
C15_EndAfterStart ==
    \A e \in DOMAIN events : events[e].end_time.v > events[e].start_time.v

\* C16: every stored event has is_recurring = true if and only if it has a
\* recurrence_pattern.
C16_RecurringIffPattern ==
    \A e \in DOMAIN events :
        Truthy(events[e].is_recurring) <=> Truthy(events[e].recurrence_pattern)

\* C17: update_event changes only the supplied fields of the event it names:
\* every essential field that is not supplied keeps its value, the event
\* keeps its id and owner_id, and no other event is changed.
C17_UpdateFrame ==
    [][(last'.op = "update_event" /\ last'.eid \in DOMAIN events)
       => /\ DOMAIN events' = DOMAIN events
          /\ \A e \in DOMAIN events \ {last'.eid} : events'[e] = events[e]
          /\ events'[last'.eid].owner_id = events[last'.eid].owner_id
          /\ \A f \in essential_fields :
                last'.req[f] = Unset => events'[last'.eid][f] = events[last'.eid][f]]_vars

\* an update that supplies only the title changed the title of a recurring
\* event, which is still recurring with its pattern
C17_Witness ==
    /\ last.op = "update_event"
    /\ last.status = 200
    /\ last.req = [NoUpdate EXCEPT !.title = Str(2)]
    /\ events[last.eid].title = Str(2)
    /\ events[last.eid].is_recurring = Bool(TRUE)
    /\ events[last.eid].recurrence_pattern = Pat(1)
    /\ \E v \in get_version(last.eid, 1) : v.data.title = Str(1)

\* the events user u has access to: those u owns or holds a grant on
Accessible(u) == {e \in DOMAIN events : events[e].owner_id = u \/ HasGrant(e, u)}

\* C18: read_events lists no event twice and lists only events the user has
\* access to (owned or granted); the list has as many entries as the window
\* skip/limit leaves of them, so a window that covers them all lists exactly
\* the accessible events; and an existing event is accessible if and only if
\* read_event on it would not answer the user 403.
C18_ReadEventsExact ==
    (last.op = "read_events" /\ last.status = 200)
    => LET out == last.out
           skip == last.req[1]
           limit == last.req[2]
           n == Cardinality(Accessible(last.user))
       IN /\ \A i, j \in DOMAIN out : out[i] = out[j] => i = j
          /\ \A i \in DOMAIN out : out[i] \in Accessible(last.user)
          /\ Len(out) = IF n - skip < 0 THEN 0
                        ELSE IF n - skip < limit THEN n - skip ELSE limit
          /\ (skip = 0 /\ limit >= n) => {out[i] : i \in DOMAIN out} = Accessible(last.user)
          /\ \A e \in DOMAIN events :
                e \in Accessible(last.user) <=> read_event_status(last.user, e) # 403

\* a user who owns an event that has two grants, one of them the user's own,
\* listed two events
C18_Witness ==
    /\ last.op = "read_events"
    /\ last.status = 200
    /\ last.req = <<0, 100>>
    /\ Len(last.out) = 2
    /\ \E e \in DOMAIN events :
          /\ events[e].owner_id = last.user
          /\ Cardinality(event_permissions(e)) = 2
          /\ HasGrant(e, last.user)

\* the operations on one event
EventOps == ReadOps \cup {"update_event", "delete_event", "share_event",
                          "remove_event_permission"}

\* C19: after a successful share_event naming user u with role r, the grants
\* of the event (what read_event_permissions lists) hold a grant of r to u
\* and u passes check_permission for r and every lower role; after a
\* successful remove_event_permission for u the event has no grant for u and
\* u, unless the owner, has no permission on it; read_event_permissions
\* lists exactly the grants of the event; and a user who is not the owner and
\* holds no grant is answered 403 by every operation on the event.
C19_ShareAndRemoveEffects ==
    [][/\ (last'.op = "share_event" /\ last'.status = 200)
          => \A u \in Users, r \in UserRole :
                (\E i \in DOMAIN last'.req : last'.req[i] = [user_id |-> u, role |-> r])
                => /\ [event_id |-> last'.eid, user_id |-> u, role |-> r] \in permissions'
                   /\ \A q \in UserRole :
                         role_hierarchy(q) <= role_hierarchy(r)
                         => (check_permission(last.eid, u, q))'
       /\ (last'.op = "remove_event_permission" /\ last'.status = 200)
          => \A u \in Users :
                last'.req = u
                => /\ \A p \in permissions' : ~(p.event_id = last'.eid /\ p.user_id = u)
                   /\ events'[last'.eid].owner_id # u
                      => (~check_permission(last.eid, u, "viewer"))'
       /\ (last'.op = "read_event_permissions" /\ last'.status = 200)
          => last'.out = {p \in permissions : p.event_id = last'.eid}
       /\ (/\ last'.op \in EventOps
           /\ last'.eid \in DOMAIN events
           /\ events[last'.eid].owner_id # last'.user
           /\ ~HasGrant(last'.eid, last'.user)
           /\ last'.op = "update_event" => EventUpdate_valid(last'.req))
          => last'.status = 403]_vars

\* a grant of a user who is not the owner was removed; the event is there
C19_Witness ==
    /\ last.op = "remove_event_permission"
    /\ last.status = 200
    /\ last.eid \in DOMAIN events
    /\ events[last.eid].owner_id # last.req
    /\ ~check_permission(last.eid, last.req, "viewer")

\* C20: every grant and every version refers to an existing event; a
\* successful delete_event removes the event, and its id is never an event
\* again; every operation on the id of an event that does not exist is
\* answered 404 'Event not found'.
C20_DeleteRemovesEverything ==
    [][/\ \A p \in permissions' : p.event_id \in DOMAIN events'
       /\ \A v \in versions' : v.event_id \in DOMAIN events'
       /\ (last'.op = "delete_event" /\ last'.status = 200)
          => last'.eid \notin DOMAIN events'
       /\ \A e \in EventIds :
             (e < next_event_id /\ e \notin DOMAIN events) => e \notin DOMAIN events'
       /\ (/\ last'.op \in EventOps
           /\ last'.eid \notin DOMAIN events
           /\ last'.op = "update_event" => EventUpdate_valid(last'.req))
          => (last'.status = 404 /\ last'.out = "Event not found")]_vars

\* the history of an event that was deleted was asked for and answered 404,
\* while another event has a grant and versions
C20_Witness ==
    /\ last.op = "read_event_history"
    /\ last.status = 404
    /\ last.eid < next_event_id
    /\ last.eid \notin DOMAIN events
    /\ permissions # {}
    /\ versions # {}

\* C21: no event has two versions with the same version_number, also when
\* update_event requests on the event run beside each other.
C21_DistinctVersionNumbers ==
    \A v, w \in versions :
        (v.event_id = w.event_id /\ v.version_number = w.version_number) => v = w

\* C22: a register request whose email or username is already registered is
\* answered 400 and creates no user; no two users share an email or a
\* username after any register or update_user_me.
C22_UniqueUsers ==
    [][/\ (/\ last'.op = "register"
           /\ \E i \in DOMAIN users :
                 \/ users[i].email = last'.req.email
                 \/ users[i].username = last'.req.username)
          => (last'.status = 400 /\ users' = users)
       /\ \A i, j \in DOMAIN users' :
             i # j => /\ users'[i].email # users'[j].email
                      /\ users'[i].username # users'[j].username]_vars

\* a register with a new email and the username of a registered user was
\* answered 400
C22_Witness ==
    /\ last.op = "register"
    /\ last.status = 400
    /\ last.out = "Username already registered"
    /\ \A i \in DOMAIN users : users[i].email # last.req.email
    /\ \E i \in DOMAIN users : users[i].username = last.req.username
    /\ Cardinality(DOMAIN users) > NumUsers

\* C23: logout invalidates the token: a token that logout has just accepted
\* (200) is rejected by the authenticated endpoint that is called next with it.
C23_LogoutInvalidatesToken ==
    [][(/\ last.op = "logout"
        /\ last.status = 200
        /\ last'.op = "read_users_me"
        /\ last'.req = last.req)
       => last'.status # 200]_vars

\* C24: on stored events with start_time < end_time and a range with
\* start < end, check_conflicts(event_id, start, end) returns exactly the
\* stored events other than event_id that start before end and end after
\* start: no event that only touches the range, and never event_id itself.
C24_ConflictsExact ==
    (/\ last.op = "check_conflicts"
     /\ \A x \in DOMAIN events : events[x].start_time.v < events[x].end_time.v
     /\ last.req.start_time.v < last.req.end_time.v)
    => /\ last.out = {x \in DOMAIN events :
                         /\ x # last.eid
                         /\ events[x].start_time.v < last.req.end_time.v
                         /\ events[x].end_time.v > last.req.start_time.v}
       /\ last.eid \notin last.out
       /\ \A x \in DOMAIN events :
             (\/ events[x].end_time.v = last.req.start_time.v
              \/ events[x].start_time.v = last.req.end_time.v) => x \notin last.out

\* a query that returned one stored event and left out another one that ends
\* when the range starts or starts when the range ends
C24_Witness ==
    /\ last.op = "check_conflicts"
    /\ last.out # {}
    /\ \E x \in DOMAIN events :
          /\ x # last.eid
          /\ \/ events[x].end_time.v = last.req.start_time.v
             \/ events[x].start_time.v = last.req.end_time.v
          /\ x \notin last.out

\* C25: when create_event, create_batch, update_event and delete_event run
\* one at a time, no two stored events overlap, and two entries of one
\* create_batch call that overlap each other are never both stored.
C25_NoStoredOverlap ==
    /\ \A x, y \in DOMAIN events :
          x # y => ~(/\ events[x].start_time.v < events[y].end_time.v
                     /\ events[x].end_time.v > events[y].start_time.v)
    /\ last.op = "create_batch" =>
          \A i, j \in DOMAIN last.req :
              (/\ i # j
               /\ last.req[i].start_time.v < last.req[j].end_time.v
               /\ last.req[i].end_time.v > last.req[j].start_time.v)
              => \E k \in DOMAIN last.out.failed : last.out.failed[k] \in {i, j}

\* a batch of two entries that overlap each other on an empty part of the
\* calendar: the first was stored and the second failed
C25_Witness ==
    /\ last.op = "create_batch"
    /\ Len(last.req) = 2
    /\ last.req[1].start_time.v < last.req[2].end_time.v
    /\ last.req[1].end_time.v > last.req[2].start_time.v
    /\ Len(last.out.created) = 1
    /\ last.out.failed = <<2>>
    /\ last.out.created[1] \in DOMAIN events

\* C26: read_event_history returns all the versions of the event and only
\* those, by strictly ascending version_number; read_event_version(event, n)
\* returns the version of the event numbered n, or 404 'Version not found'
\* when there is none; no version of another event is returned.
C26_HistoryReads ==
    /\ (last.op = "read_event_history" /\ last.status = 200) =>
          /\ {last.out[i] : i \in DOMAIN last.out} = {v \in versions : v.event_id = last.eid}
          /\ \A i, j \in DOMAIN last.out :
                i < j => last.out[i].version_number < last.out[j].version_number
    /\ (/\ last.op = "read_event_version"
        /\ last.eid \in DOMAIN events
        /\ check_permission(last.eid, last.user, "viewer")) =>
          IF \E v \in versions : v.event_id = last.eid /\ v.version_number = last.req
          THEN /\ last.status = 200
               /\ last.out \in versions
               /\ last.out.event_id = last.eid
               /\ last.out.version_number = last.req
          ELSE /\ last.status = 404
               /\ last.out = "Version not found"

\* the second version of an event was read while another event had a
\* version as well
C26_Witness ==
    /\ last.op = "read_event_version"
    /\ last.status = 200
    /\ last.req = 2
    /\ last.out.version_number = 2
    /\ \E v \in versions : v.event_id # last.eid

====
